---- MODULE Spec2Model ----
(***************************************************************************)
(* LiveTrading (kuegi_bot/trade_engine.py): the bar store merge of         *)
(* update_bars, the order reconciliation of update_account, and the        *)
(* lifecycle and scheduling loop (__init__, run_loop, handle_tick, exit).  *)
(*                                                                         *)
(* Time is counted in steps of 0.5 s, the sleep of run_loop.  A bar is a   *)
(* record of its bucket timestamp, its subbar timestamps and its           *)
(* did_change flag; subbars are held newest first, as the code reads them  *)
(* (subbars[-1] is the first subbar of the bucket, subbars[0] the latest). *)
(* Prices and volumes are left out: no branch of the engine reads them.    *)
(***************************************************************************)
EXTENDS Integers, Sequences, FiniteSets, TLC

VARIABLES
    alive,          \* self.alive
    pc,             \* position of the thread that constructs and runs the engine
    now,            \* time.time(), in steps of 0.5 s
    last,           \* run_loop's local `last`
    last_tick,      \* self.last_tick
    bars,           \* self.bars, newest first
    open_orders,    \* self.account.open_orders
    order_history,  \* self.account.order_history
    order_log,      \* the "order %s got %s" lines of update_account
    venue,          \* the venue's orders: id -> status
    trace,          \* gateway and strategy calls since construction / since the last trigger
    err,            \* the call that raised, "" when none did
    tick0,          \* bars, open orders and history when handle_tick was entered
    bars_path,      \* branches the last update_bars went through
    exit_err,       \* what self.exchange.exit() raised inside exit(), "none" before the call
    orders,         \* update_account's local `orders`, kept after a direct call of update_account
    served,         \* the value of last_tick has made the push branch trigger a tick
    cause,          \* the branch of line 171 that triggered the tick in flight
    pending         \* a push has arrived and no bar fetch has begun since

vars == <<alive, pc, now, last, last_tick, bars, open_orders, order_history,
          order_log, venue, trace, err, tick0, bars_path, exit_err, orders,
          served, cause, pending>>

(***************************************************************************)
(* Settings and constants of the code                                      *)
(***************************************************************************)
\* settings.MINUTES_PER_BAR: subbars (minutes) per bucket
BarWidth == 3
\* update_bars: a full fetch while fewer than this many bars are held
MinBars == 10
\* settings.LOOP_INTERVAL, 5 s
LOOP_INTERVAL == 10
\* the debounce of run_loop, 2 s
Debounce == 4
\* sleep(0.5)
SleepTime == 1

(***************************************************************************)
(* Bounds of the model                                                     *)
(***************************************************************************)
\* buckets that may open after the first full fetch
MaxNewBuckets == 1
\* bars in one answer of recent_bars
MaxBatch == 2
\* bars of a short (cold) answer of get_bars
ColdLen == 3
\* the clock runs from StartTime to StartTime + TimeSpan
TimeSpan == 13

Max(S) == CHOOSE x \in S : \A y \in S : y <= x

(***************************************************************************)
(* Bars                                                                    *)
(***************************************************************************)
Bar(t, subs, chg) == [tstamp |-> t, subbars |-> subs, did_change |-> chg]

RECURSIVE DescSeq(_)
\* the timestamps of S, newest first
DescSeq(S) == IF S = {} THEN <<>> ELSE <<Max(S)>> \o DescSeq(S \ {Max(S)})

\* the subbar timestamps of the bucket that starts at t
Minutes(t) == t .. (t + BarWidth - 1)

\* every partial view the gateway can hold of the bucket that starts at t
Views(t) == { Bar(t, DescSeq(S), TRUE) : S \in (SUBSET Minutes(t)) \ {{}} }

FullBar(t) == Bar(t, DescSeq(Minutes(t)), TRUE)

HeadBucket == MinBars * BarWidth
MaxBucket == HeadBucket + MaxNewBuckets * BarWidth

\* get_bars: a closed history of n bars under a head that is still filling
History(head, n) == <<head>> \o [i \in 1 .. (n - 1) |-> FullBar(head.tstamp - i * BarWidth)]

\* every bar the gateway can serve: all partial views of the buckets in range
AllViews == UNION { Views(t) : t \in { HeadBucket + k * BarWidth : k \in -1 .. MaxNewBuckets } }

\* the views a gap-free feed serves: the first k minutes of a bucket
PrefixViews == { b \in AllViews : \E k \in 1 .. BarWidth :
                                    b.subbars = DescSeq(b.tstamp .. (b.tstamp + k - 1)) }

\* a feed that has nothing new: every bucket is closed
ClosedViews == { b \in AllViews : b = FullBar(b.tstamp) }

\* a gap-free feed sampled when a bucket is closed or one minute short of it
LateViews == { b \in PrefixViews : Len(b.subbars) >= BarWidth - 1 }

\* the answers of get_bars out of a feed: a long history or a short (cold) one
FullFetches(feed) ==
    { History(h, n) : h \in { b \in feed : b.tstamp = HeadBucket }, n \in {MinBars, ColdLen} }

\* recent_bars: at most MaxBatch bars of the buckets around the head, newest first
BatchBuckets(headT) == { t \in {headT - BarWidth, headT, headT + BarWidth} : t <= MaxBucket }

RECURSIVE BatchesFrom(_, _, _)
BatchesFrom(feed, buckets, n) ==
    IF n = 0 \/ buckets = {} THEN {<<>>}
    ELSE {<<>>} \cup UNION { { <<b>> \o rest : b \in { x \in feed : x.tstamp = t },
                                    rest \in BatchesFrom(feed, {u \in buckets : u < t}, n - 1) }
                             : t \in buckets }

\* the answers of recent_bars out of a feed, for a store whose head starts at headT
Batches(feed, headT) == BatchesFrom(feed, BatchBuckets(headT), MaxBatch)

\* Bar.add_subbar: the subbar becomes the latest one of the bar
add_subbar(bar, sub) == [bar EXCEPT !.subbars = <<sub>> \o @, !.did_change = TRUE]

\* line 125: a subbar of the head is kept while it is older than b's first subbar
KeepHeadSub(sub, b) == sub < b.subbars[Len(b.subbars)]

\* a slip: every subbar of b is taken
TakeNewSubAlways(sub, newBar) == TRUE

\* line 130: a subbar of b is taken when it is later than the latest merged one
TakeNewSub(sub, newBar) == sub > newBar.subbars[1]

\* a slip of index: compares the latest subbars instead of the first ones
SameLatestSub(b, head) == b.subbars[1] = head.subbars[1]

\* line 116: b and the head start at the same subbar
SameFirstSub(b, head) == b.subbars[Len(b.subbars)] = head.subbars[Len(head.subbars)]

RECURSIVE ScanHead(_, _, _, _)
\* lines 124-128: for sub in reversed(head.subbars[:-1]), i counts down from Len - 1
ScanHead(newBar, head, i, b) ==
    IF i < 1 THEN newBar
    ELSE IF KeepHeadSub(head.subbars[i], b)
         THEN ScanHead(add_subbar(newBar, head.subbars[i]), head, i - 1, b)
         ELSE newBar

RECURSIVE ScanNew(_, _, _)
\* lines 129-133: for sub in reversed(b.subbars), i counts down from Len
ScanNew(newBar, b, i) ==
    IF i < 1 THEN newBar
    ELSE IF TakeNewSub(b.subbars[i], newBar)
         THEN ScanNew(add_subbar(newBar, b.subbars[i]), b, i - 1)
         ELSE ScanNew(newBar, b, i - 1)

\* lines 120-134: the merge of the head with b
MergeHead(head, b) ==
    LET first == head.subbars[Len(head.subbars)]
        newBar == Bar(b.tstamp, <<first>>, TRUE)
    IN ScanNew(ScanHead(newBar, head, Len(head.subbars) - 1, b), b, Len(b.subbars))

\* a slip of comparison: a bar of the head's bucket opens a bucket of its own
BranchInsertsEqual(bs, b) ==
    IF b.tstamp < bs[1].tstamp THEN "stale" ELSE "insert"

\* lines 112-135: the branch an incoming bar takes
Branch(bs, b) ==
    IF b.tstamp < bs[1].tstamp THEN "stale"
    ELSE IF b.tstamp = bs[1].tstamp
         THEN IF SameFirstSub(b, bs[1]) THEN "replace" ELSE "merge"
         ELSE "insert"

\* a slip: a bar of a new bucket is appended instead of inserted at index 0
ApplyBarAppends(bs, b) ==
    CASE Branch(bs, b) = "stale" -> bs
      [] Branch(bs, b) = "replace" -> [bs EXCEPT ![1] = b]
      [] Branch(bs, b) = "merge" -> [bs EXCEPT ![1] = MergeHead(bs[1], b)]
      [] OTHER -> bs \o <<b>>

\* lines 112-136: one incoming bar against the store
ApplyBar(bs, b) ==
    CASE Branch(bs, b) = "stale" -> bs
      [] Branch(bs, b) = "replace" -> [bs EXCEPT ![1] = b]
      [] Branch(bs, b) = "merge" -> [bs EXCEPT ![1] = MergeHead(bs[1], b)]
      [] OTHER -> <<b>> \o bs

RECURSIVE MergeIncremental(_, _, _)
\* line 111: for b in reversed(new_bars), i counts down from Len
MergeIncremental(bs, new_bars, i) ==
    IF i < 1 THEN bs ELSE MergeIncremental(ApplyBar(bs, new_bars[i]), new_bars, i - 1)

RECURSIVE PathOf(_, _, _)
\* the branches MergeIncremental goes through
PathOf(bs, new_bars, i) ==
    IF i < 1 THEN {}
    ELSE {Branch(bs, new_bars[i])} \cup PathOf(ApplyBar(bs, new_bars[i]), new_bars, i - 1)

\* a slip of comparison: a store of exactly MinBars bars is fetched in full again
NeedsFullFetchAtMin(bs) == Len(bs) <= MinBars

\* line 107
NeedsFullFetch(bs) == Len(bs) < MinBars

\* update_bars, given what the gateway answers
update_bars(bs, full, new_bars) ==
    IF NeedsFullFetch(bs) THEN full ELSE MergeIncremental(bs, new_bars, Len(new_bars))

update_bars_path(bs, new_bars) ==
    IF NeedsFullFetch(bs) THEN {"full"} ELSE PathOf(bs, new_bars, Len(new_bars))

(***************************************************************************)
(* Orders                                                                  *)
(***************************************************************************)
OrderIds == {"a", "b"}
IdOrder == <<"a", "b">>
Statuses == {"none", "active", "executed", "canceled"}

\* the order the venue reports for an id in a status
OrderOf(id, st) ==
    [id |-> id, active |-> (st = "active"),
     executed_amount |-> IF st = "executed" THEN 1 ELSE 0]

\* orders that never got an id from the venue
EmptyIdOrders == { [id |-> "", active |-> a, executed_amount |-> 0] : a \in BOOLEAN }

\* get_orders: any part of the venue's orders, in id order, after at most one id-less order
Snapshots(v) ==
    { pre \o [i \in 1 .. Len(SelectSeq(IdOrder, LAMBDA x : x \in S))
                |-> LET id == SelectSeq(IdOrder, LAMBDA x : x \in S)[i] IN OrderOf(id, v[id])]
      : pre \in {<<>>} \cup { <<e>> : e \in EmptyIdOrders },
        S \in SUBSET { id \in OrderIds : v[id] # "none" } }

\* lines 89-91
PrevOpenIds(open) == { open[i].id : i \in 1 .. Len(open) }

\* a slip: the check for an empty id is left out
GoesToHistoryNoIdCheck(o, prevOpenIds) == o.id \in prevOpenIds

\* line 97: an inactive order is recorded when it has an id that was open before
GoesToHistory(o, prevOpenIds) == o.id # "" /\ o.id \in prevOpenIds

\* a slip: the test of executed_amount is inverted
ClassifyInverted(o) == IF o.executed_amount = 0 THEN "executed" ELSE "canceled"

\* line 101
Classify(o) == IF o.executed_amount # 0 THEN "executed" ELSE "canceled"

\* a slip: line 93 is left out and the active orders are appended to the old set
NewOpenOrdersAppended(open, answer) == open \o SelectSeq(answer, LAMBDA o : o.active)

\* lines 93-96: the new open-order set
NewOpenOrders(open, answer) == SelectSeq(answer, LAMBDA o : o.active)

\* lines 94-103: the orders this pass appends to the history
Transitions(answer, prevOpenIds) ==
    SelectSeq(answer, LAMBDA o : ~o.active /\ GoesToHistory(o, prevOpenIds))

\* lines 98-102: the log lines of this pass
LogLines(answer, prevOpenIds) ==
    [i \in 1 .. Len(Transitions(answer, prevOpenIds)) |->
        [id |-> Transitions(answer, prevOpenIds)[i].id,
         got |-> Classify(Transitions(answer, prevOpenIds)[i])]]

(***************************************************************************)
(* The engine                                                              *)
(***************************************************************************)
StartTime == LOOP_INTERVAL + 1
NoTick == [bars |-> <<>>, open_orders |-> <<>>, order_history |-> <<>>]
Account == <<open_orders, order_history, order_log, orders>>
Clock == <<now, last, last_tick>>
Push == <<served, cause, pending>>

\* a slip: only the head is cleared
ClearChangedHeadOnly(bs) ==
    [i \in 1 .. Len(bs) |-> IF i = 1 THEN [bs[i] EXCEPT !.did_change = FALSE] ELSE bs[i]]

\* line 160
ClearChanged(bs) == [i \in 1 .. Len(bs) |-> [bs[i] EXCEPT !.did_change = FALSE]]

\* a slip: the polling branch is left out of the condition
TriggerOnPushOnly(current, lst, tick) == lst < tick /\ tick < current - Debounce

\* a slip of comparison: the interval branch fires when the interval is reached
TriggerAtInterval(current, lst, tick) ==
    current - lst >= LOOP_INTERVAL \/ (lst < tick /\ tick < current - Debounce)

\* line 171, left of the `or`: the polling interval is exceeded
IntervalBranch(current, lst) == current - lst > LOOP_INTERVAL

\* line 171, right of the `or`: a push after the last execution, older than the debounce
PushBranch(current, lst, tick) == lst < tick /\ tick < current - Debounce

\* line 171
Trigger(current, lst, tick) ==
    current - lst > LOOP_INTERVAL \/ (lst < tick /\ tick < current - Debounce)

\* a slip: exit() without the early return of line 143-144
ExitCallsAlways(al) == <<"exit">>

\* a slip: exit() that never reaches the gateway
ExitCallsNone(al) == <<>>

\* lines 143-147: the gateway calls of exit()
ExitCalls(al) == IF al THEN <<"exit">> ELSE <<>>

\* line 147: what self.exchange.exit() does: it returns, or raises one of these
ExitOutcomes == {"ok", "AuthenticationError", "Exception"}

\* a slip: exit() without the handler of lines 150-151
ExitSwallowsAuthOnly(outcome) == outcome # "Exception"

\* lines 146-151: both handlers of exit() log and go on to line 152
ExitSwallows(outcome) == outcome \in {"ok", "AuthenticationError", "Exception"}

\* the gateway call update_bars makes (lines 107-110)
FetchCall(bs) == IF NeedsFullFetch(bs) THEN "get_bars" ELSE "recent_bars"

\* update_bars with an answer of the gateway out of feed
DoUpdateBars(feed) ==
    /\ \/ /\ NeedsFullFetch(bars)
          /\ \E full \in FullFetches(feed) : bars' = update_bars(bars, full, <<>>)
          /\ bars_path' = update_bars_path(bars, <<>>)
       \/ /\ ~NeedsFullFetch(bars)
          /\ \E new_bars \in Batches(feed, bars[1].tstamp) :
                /\ bars' = update_bars(bars, <<>>, new_bars)
                /\ bars_path' = update_bars_path(bars, new_bars)

\* lines 89-103: update_account, given the answer of get_orders
DoUpdateAccount(answer) ==
    /\ open_orders' = NewOpenOrders(open_orders, answer)
    /\ order_history' = order_history \o Transitions(answer, PrevOpenIds(open_orders))
    /\ order_log' = order_log \o LogLines(answer, PrevOpenIds(open_orders))

\* a constructor that catches the exception and clears alive
InitRaisesStopped(call) ==
    /\ pc' = "failed"
    /\ err' = call
    /\ alive' = FALSE
    /\ trace' = Append(trace, call)
    /\ UNCHANGED <<Clock, bars, Account, venue, tick0, bars_path, exit_err, Push>>

\* an exception leaves the constructor (lines 37-48 have no handler)
InitRaises(call) ==
    /\ pc' = "failed"
    /\ err' = call
    /\ trace' = Append(trace, call)
    /\ UNCHANGED <<alive, Clock, bars, Account, venue, tick0, bars_path, exit_err, Push>>

\* line 37 and line 50
InitIsOpen ==
    /\ pc = "i_open"
    /\ \/ /\ pc' = "i_instr"
          /\ trace' = Append(trace, "is_open")
          /\ UNCHANGED <<alive, Clock, bars, Account, venue, err, tick0, bars_path, exit_err, Push>>
       \/ /\ pc' = "ready"
          /\ alive' = FALSE
          /\ trace' = Append(trace, "is_open")
          /\ UNCHANGED <<Clock, bars, Account, venue, err, tick0, bars_path, exit_err, Push>>
       \/ InitRaises("is_open")

\* lines 39-41
InitInstrument ==
    /\ pc = "i_instr"
    /\ \/ /\ pc' = "i_bars"
          /\ trace' = trace \o <<"get_instrument", "bot.prepare">>
          /\ UNCHANGED <<alive, Clock, bars, Account, venue, err, tick0, bars_path, exit_err, Push>>
       \/ InitRaises("get_instrument")

\* lines 43-44
InitBars(feed) ==
    /\ pc = "i_bars"
    /\ \/ /\ DoUpdateBars(feed)
          /\ pc' = "i_acct"
          /\ trace' = Append(trace, FetchCall(bars))
          /\ UNCHANGED <<alive, Clock, Account, venue, err, tick0, exit_err, Push>>
       \/ InitRaises(FetchCall(bars))

\* lines 45-46
InitAccount ==
    /\ pc = "i_acct"
    /\ \/ /\ \E answer \in Snapshots(venue) : DoUpdateAccount(answer)
          /\ orders' = <<>>
          /\ pc' = "i_bot"
          /\ trace' = trace \o <<"update_account", "get_orders">>
          /\ UNCHANGED <<alive, Clock, bars, venue, err, tick0, bars_path, exit_err, Push>>
       \/ InitRaises("get_orders")

\* lines 47-48
InitBot ==
    /\ pc = "i_bot"
    /\ \/ /\ pc' = "ready"
          /\ trace' = trace \o <<"bot.reset", "bot.init">>
          /\ UNCHANGED <<alive, Clock, bars, Account, venue, err, tick0, bars_path, exit_err, Push>>
       \/ InitRaises("bot.init")

\* line 166: run_loop is called on the constructed engine
StartLoop ==
    /\ pc = "ready"
    /\ pc' = "loop"
    /\ last' = 0
    /\ UNCHANGED <<alive, now, last_tick, bars, Account, venue, trace, err, tick0, bars_path, exit_err, Push>>

\* lines 167-171: the loop test, current = time.time() and the trigger condition
LoopIter ==
    /\ pc = "loop"
    /\ \/ /\ ~alive
          /\ pc' = "done"
          /\ trace' = trace
          /\ UNCHANGED Push
       \/ /\ alive
          /\ Trigger(now, last, last_tick)
          /\ pc' = "trig"
          /\ trace' = <<>>
          /\ served' = (served \/ PushBranch(now, last, last_tick))
          /\ cause' = IF IntervalBranch(now, last) THEN "interval" ELSE "push"
          /\ pending' = pending
       \/ /\ alive
          /\ ~Trigger(now, last, last_tick)
          /\ pc' = "sleep"
          /\ trace' = trace
          /\ UNCHANGED Push
    /\ UNCHANGED <<alive, Clock, bars, Account, venue, err, tick0, bars_path, exit_err>>

\* a slip: line 172 is left out
SetLastSkipped ==
    /\ pc = "trig"
    /\ last' = last
    /\ pc' = "check"
    /\ UNCHANGED <<alive, now, last_tick, bars, Account, venue, trace, err, tick0, bars_path, exit_err, Push>>

\* line 172
SetLast ==
    /\ pc = "trig"
    /\ last' = now
    /\ pc' = "check"
    /\ UNCHANGED <<alive, now, last_tick, bars, Account, venue, trace, err, tick0, bars_path, exit_err, Push>>

\* an exception leaves run_loop (handle_tick logs and raises again, lines 161-163)
LoopRaises(call) ==
    /\ pc' = "crashed"
    /\ err' = call
    /\ trace' = Append(trace, call)
    /\ UNCHANGED <<alive, Clock, bars, Account, venue, tick0, bars_path, exit_err, Push>>

\* lines 173-177: the connectivity check, exit() when it is closed
CheckConnection ==
    /\ pc = "check"
    /\ \/ /\ pc' = "t_bars"
          /\ trace' = Append(trace, "is_open")
          /\ tick0' = [bars |-> bars, open_orders |-> open_orders,
                       order_history |-> order_history]
          /\ UNCHANGED <<alive, Clock, bars, Account, venue, err, bars_path, exit_err, Push>>
       \/ /\ trace' = Append(trace, "is_open") \o ExitCalls(alive)
          /\ \E outcome \in ExitOutcomes :
                /\ exit_err' = outcome
                /\ IF ExitSwallows(outcome)
                   THEN alive' = FALSE /\ pc' = "sleep" /\ err' = err
                   ELSE alive' = alive /\ pc' = "crashed" /\ err' = "exit"
          /\ UNCHANGED <<Clock, bars, Account, venue, tick0, bars_path, Push>>
       \/ LoopRaises("is_open")

\* line 156
TickBars(feed) ==
    /\ pc = "t_bars"
    /\ \/ /\ DoUpdateBars(feed)
          /\ pc' = "t_acct"
          /\ trace' = Append(trace, FetchCall(bars))
          /\ pending' = FALSE
          /\ UNCHANGED <<alive, Clock, Account, venue, err, tick0, exit_err, served, cause>>
       \/ LoopRaises(FetchCall(bars))

\* update_account that empties the open-order set before it asks the gateway
TickAccountClearsFirst ==
    /\ pc = "t_acct"
    /\ \/ /\ \E answer \in Snapshots(venue) : DoUpdateAccount(answer)
          /\ orders' = <<>>
          /\ pc' = "t_bot"
          /\ trace' = trace \o <<"update_account", "get_orders">>
          /\ UNCHANGED <<alive, Clock, bars, venue, err, tick0, bars_path, exit_err, Push>>
       \/ /\ pc' = "crashed"
          /\ err' = "get_orders"
          /\ trace' = Append(trace, "get_orders")
          /\ open_orders' = <<>>
          /\ UNCHANGED <<alive, Clock, bars, order_history, order_log, orders, venue, tick0, bars_path, exit_err, Push>>

\* line 157
TickAccount ==
    /\ pc = "t_acct"
    /\ \/ /\ \E answer \in Snapshots(venue) : DoUpdateAccount(answer)
          /\ orders' = <<>>
          /\ pc' = "t_bot"
          /\ trace' = trace \o <<"update_account", "get_orders">>
          /\ UNCHANGED <<alive, Clock, bars, venue, err, tick0, bars_path, exit_err, Push>>
       \/ LoopRaises("get_orders")

\* lines 158-160
TickBot ==
    /\ pc = "t_bot"
    /\ \/ /\ bars' = ClearChanged(bars)
          /\ pc' = "sleep"
          /\ trace' = Append(trace, "bot.on_tick")
          /\ cause' = "none"
          /\ UNCHANGED <<alive, Clock, Account, venue, err, tick0, bars_path, exit_err, served, pending>>
       \/ LoopRaises("bot.on_tick")

\* line 179
Sleep(span) ==
    /\ pc = "sleep"
    /\ now + SleepTime <= StartTime + span
    /\ now' = now + SleepTime
    /\ pc' = "loop"
    /\ UNCHANGED <<alive, last, last_tick, bars, Account, venue, trace, err, tick0, bars_path, exit_err, Push>>

\* time passes while the loop thread is between two of its steps
Advance(span) ==
    /\ pc \in {"loop", "trig", "check", "t_bars", "t_acct", "t_bot"}
    /\ now < StartTime + span
    /\ now' = now + 1
    /\ UNCHANGED <<alive, pc, last, last_tick, bars, Account, venue, trace, err, tick0, bars_path, exit_err, Push>>

\* time passes in the calls of a tick in flight, at most d in all
TickTakes(d) ==
    /\ pc \in {"check", "t_bars", "t_acct", "t_bot"}
    /\ now < last + d
    /\ now' = now + 1
    /\ UNCHANGED <<alive, pc, last, last_tick, bars, Account, venue, trace, err, tick0, bars_path, exit_err, Push>>

\* lines 52-53: the gateway's push callback, on its own thread
on_tick ==
    /\ pc \in {"ready", "loop", "trig", "check", "t_bars", "t_acct", "t_bot", "sleep"}
    /\ last_tick # now \/ ~pending
    /\ last_tick' = now
    /\ served' = (served /\ last_tick = now)
    /\ pending' = TRUE
    /\ UNCHANGED <<alive, pc, now, last, bars, Account, venue, trace, err, tick0, bars_path, exit_err, cause>>

\* lines 142-152: exit() called by the owner of the engine, outside run_loop
exit ==
    /\ pc \in {"ready", "done", "crashed"}
    /\ trace' = trace \o ExitCalls(alive)
    /\ \/ /\ ~alive
          /\ UNCHANGED <<alive, err, exit_err>>
       \/ /\ alive
          /\ \E outcome \in ExitOutcomes :
                /\ exit_err' = outcome
                /\ IF ExitSwallows(outcome)
                   THEN alive' = FALSE /\ err' = err
                   ELSE alive' = alive /\ err' = "exit"
    /\ UNCHANGED <<pc, Clock, bars, Account, venue, tick0, bars_path, Push>>

\* the venue accepts, fills or cancels an order among ids; the engine sees the
\* venue only through get_orders, so the steps are taken right before a fetch
VenueStep(ids) ==
    /\ pc \in {"i_acct", "t_acct", "call"}
    /\ \E id \in ids, st \in Statuses \ {"none"} :
          /\ venue[id] \in {"none", "active"}
          /\ venue[id] # st
          /\ venue' = [venue EXCEPT ![id] = st]
    /\ UNCHANGED <<alive, pc, Clock, bars, Account, trace, err, tick0, bars_path, exit_err, Push>>

Init ==
    /\ alive = TRUE
    /\ pc = "i_open"
    /\ now = StartTime
    /\ last = 0
    /\ last_tick = 0
    /\ bars = <<>>
    /\ open_orders = <<>>
    /\ order_history = <<>>
    /\ order_log = <<>>
    /\ orders = <<>>
    /\ served = FALSE
    /\ cause = "none"
    /\ pending = FALSE
    /\ venue = [id \in OrderIds |-> "none"]
    /\ trace = <<>>
    /\ err = ""
    /\ tick0 = NoTick
    /\ bars_path = {}
    /\ exit_err = "none"

\* ids the venue trades in the engine's specification
EngineIds == {"a"}
\* the clock of the engine's specification runs over this many steps
EngineSpan == 2

Next ==
    \/ InitIsOpen \/ InitInstrument \/ InitBars(LateViews) \/ InitAccount \/ InitBot
    \/ StartLoop \/ LoopIter \/ SetLast \/ CheckConnection
    \/ TickBars(LateViews) \/ TickAccount \/ TickBot
    \/ Sleep(EngineSpan) \/ Advance(EngineSpan) \/ on_tick \/ exit \/ VenueStep(EngineIds)

Spec == Init /\ [][Next]_vars

(***************************************************************************)
(* The scheduling loop on its own: a feed with nothing new, no orders      *)
(***************************************************************************)
NextSched ==
    \/ InitIsOpen \/ InitInstrument \/ InitBars(ClosedViews) \/ InitAccount \/ InitBot
    \/ StartLoop \/ LoopIter \/ SetLast \/ CheckConnection
    \/ TickBars(ClosedViews) \/ TickAccount \/ TickBot
    \/ Sleep(TimeSpan) \/ Advance(TimeSpan) \/ on_tick

SpecSched == Init /\ [][NextSched]_vars

(***************************************************************************)
(* The loop under fair scheduling: the thread of run_loop always gets its  *)
(* next step, the sleep of line 179 ends, a tick takes a bounded time and  *)
(* pushes arrive at any point; the feed holds the closed head bucket       *)
(***************************************************************************)
FairSpan == 16
MaxTickTime == 1
HeadOnly == { FullBar(HeadBucket) }

\* the steps of the thread that constructs the engine and runs run_loop
LoopThread ==
    \/ InitIsOpen \/ InitInstrument \/ InitBars(HeadOnly) \/ InitAccount \/ InitBot
    \/ StartLoop \/ LoopIter \/ SetLast \/ CheckConnection
    \/ TickBars(HeadOnly) \/ TickAccount \/ TickBot
    \/ Sleep(FairSpan)

NextFair == LoopThread \/ TickTakes(MaxTickTime) \/ on_tick

SpecFair == Init /\ [][NextFair]_vars /\ WF_vars(LoopThread)

(***************************************************************************)
(* Tick after tick on the polling interval alone, with every view of the   *)
(* feed: calls take no time, there are no pushes and no orders             *)
(***************************************************************************)
NextTicks ==
    \/ InitIsOpen \/ InitInstrument \/ InitBars(AllViews) \/ InitAccount \/ InitBot
    \/ StartLoop \/ LoopIter \/ SetLast \/ CheckConnection
    \/ TickBars(AllViews) \/ TickAccount \/ TickBot
    \/ Sleep(TimeSpan)

SpecTicks == Init /\ [][NextTicks]_vars

(***************************************************************************)
(* update_bars and update_account called on a constructed engine           *)
(***************************************************************************)
InitCall ==
    /\ alive = TRUE
    /\ pc = "call"
    /\ now = StartTime
    /\ last = 0
    /\ last_tick = 0
    /\ bars \in FullFetches(AllViews)
    /\ open_orders = <<>>
    /\ order_history = <<>>
    /\ order_log = <<>>
    /\ orders = <<>>
    /\ served = FALSE
    /\ cause = "none"
    /\ pending = FALSE
    /\ venue = [id \in OrderIds |-> "none"]
    /\ trace = <<>>
    /\ err = ""
    /\ tick0 = NoTick
    /\ bars_path = {"full"}
    /\ exit_err = "none"

\* lines 105-136
CallUpdateBars ==
    /\ pc = "call"
    /\ DoUpdateBars(AllViews)
    /\ trace' = <<FetchCall(bars)>>
    /\ UNCHANGED <<alive, pc, Clock, Account, venue, err, tick0, exit_err, Push>>

\* lines 86-103
CallUpdateAccount ==
    /\ pc = "call"
    /\ \E answer \in Snapshots(venue) : DoUpdateAccount(answer) /\ orders' = answer
    /\ trace' = <<"update_account", "get_orders">>
    /\ UNCHANGED <<alive, pc, Clock, bars, venue, err, tick0, bars_path, exit_err, Push>>

SpecBars == InitCall /\ [][CallUpdateBars]_vars

InitAcct == InitCall /\ bars = History(FullBar(HeadBucket), MinBars)

\* the relay methods of the engine
RelayOps == {"send_order", "update_order", "cancel_order"}
\* relayed calls the trace may hold
MaxRelay == 2

\* a slip: a relay that sends the call again
RelayCallsTwice(op) == <<op, op>>

\* lines 64-71: the gateway calls of send_order, update_order and cancel_order
RelayCalls(op) == <<op>>

\* the strategy calls send_order, update_order or cancel_order of the engine
RelayEnter ==
    /\ pc = "call"
    /\ Len(SelectSeq(trace, LAMBDA c : c \in RelayOps)) < MaxRelay
    /\ \E op \in RelayOps : pc' = op
    /\ UNCHANGED <<alive, Clock, bars, Account, venue, trace, err, tick0, bars_path, exit_err, Push>>

\* lines 65, 68, 71: the body of the relay method
RelayForward ==
    /\ pc \in RelayOps
    /\ trace' = trace \o RelayCalls(pc)
    /\ pc' = "call"
    /\ UNCHANGED <<alive, Clock, bars, Account, venue, err, tick0, bars_path, exit_err, Push>>

NextAcct == CallUpdateAccount \/ VenueStep(OrderIds) \/ RelayEnter \/ RelayForward

SpecAcct == InitAcct /\ [][NextAcct]_vars

(***************************************************************************)
(* Properties of the bar store                                             *)
(***************************************************************************)
SubSet(b) == { b.subbars[i] : i \in 1 .. Len(b.subbars) }
Timestamps(bs) == [i \in 1 .. Len(bs) |-> [tstamp |-> bs[i].tstamp, subbars |-> bs[i].subbars]]
HeadViews == { b \in AllViews : b.tstamp = bars[1].tstamp }
Incremental == Len(bars) >= MinBars

\* C1: in the merge branch, for a head H and an incoming bar b that are overlapping
\* partial views of one bucket, the subbar timestamps of the new head are the union
\* of those of H and of b, each once and in timestamp order.
C1_NoSubbarLoss ==
    Incremental =>
        \A b \in HeadViews :
            (Branch(bars, b) = "merge" /\ SubSet(b) \cap SubSet(bars[1]) # {})
                => ApplyBar(bars, b)[1].subbars = DescSeq(SubSet(bars[1]) \cup SubSet(b))

\* C2: on the incremental path, applying a batch of recent_bars a second time leaves
\* the bucket timestamps and the subbar timestamps that applying it once left.
C2_MergeIdempotent ==
    Incremental =>
        \A new_bars \in Batches(AllViews, bars[1].tstamp) :
            LET once == update_bars(bars, <<>>, new_bars)
            IN Timestamps(update_bars(once, <<>>, new_bars)) = Timestamps(once)

\* a store that was merged and that some batch still changes
C2_Witness ==
    /\ Incremental
    /\ "merge" \in bars_path
    /\ \E new_bars \in Batches(AllViews, bars[1].tstamp) :
          /\ "merge" \in update_bars_path(bars, new_bars)
          /\ "insert" \in update_bars_path(bars, new_bars)

\* C3: the bucket timestamps of the store are strictly decreasing from index 1 on,
\* after any sequence of incremental merges.
C3_BucketsDecrease ==
    \A i \in 1 .. Len(bars), j \in 1 .. Len(bars) : i < j => bars[i].tstamp > bars[j].tstamp

\* a bucket was opened in front of a merged head
C3_Witness ==
    /\ Len(bars) > MinBars
    /\ {"merge", "insert"} \subseteq bars_path

(***************************************************************************)
(* Properties of the reconciliation                                        *)
(***************************************************************************)
Occurrences(h, id) == { k \in 1 .. Len(h) : h[k].id = id }

\* the history and the log after a pass over the answer hold o once, rightly classified
RecordedOnce(answer, o) ==
    LET prev == PrevOpenIds(open_orders)
        h == order_history \o Transitions(answer, prev)
        lg == order_log \o LogLines(answer, prev)
    IN /\ Cardinality(Occurrences(h, o.id)) = 1
       /\ \A k \in Occurrences(h, o.id) :
             /\ h[k] = o
             /\ lg[k].id = o.id
             /\ (o.executed_amount # 0 => lg[k].got = "executed")
             /\ (o.executed_amount = 0 => lg[k].got = "canceled")

\* C4 as stated: in one pass of update_account, every order the snapshot reports
\* inactive and whose id was in the open-order set before the pass is once in the
\* history after the pass, as a fill when executed_amount # 0, else as a cancellation.
C4_Original ==
    \A answer \in Snapshots(venue) : \A i \in 1 .. Len(answer) :
        (~answer[i].active /\ answer[i].id \in PrevOpenIds(open_orders))
            => RecordedOnce(answer, answer[i])

\* C4 as amended: the same for every such order that has a non-empty id.
C4_Completeness ==
    \A answer \in Snapshots(venue) : \A i \in 1 .. Len(answer) :
        (~answer[i].active /\ answer[i].id # "" /\ answer[i].id \in PrevOpenIds(open_orders))
            => RecordedOnce(answer, answer[i])

\* passes of update_account have recorded a fill and a cancellation
C4_Witness ==
    /\ \E k \in 1 .. Len(order_log) : order_log[k].got = "executed"
    /\ \E k \in 1 .. Len(order_log) : order_log[k].got = "canceled"

\* C5: no order with an empty id, and no order whose id was not in the open-order set
\* held right before the pass that saw it, is ever appended to the history.
C5_Safety ==
    [][/\ Len(order_history') >= Len(order_history)
       /\ SubSeq(order_history', 1, Len(order_history)) = order_history
       /\ \A k \in (Len(order_history) + 1) .. Len(order_history') :
             /\ order_history'[k].id # ""
             /\ order_history'[k].id \in PrevOpenIds(open_orders)]_vars

\* an id-less order sits in the open-order set while the history has grown
C5_Witness ==
    /\ order_history # <<>>
    /\ "" \in PrevOpenIds(open_orders)

(***************************************************************************)
(* Properties of the loop and of the lifecycle                             *)
(***************************************************************************)
\* C6: an iteration of run_loop goes on to the tick work exactly when
\* now - last > loop_interval or last < last_tick < now - debounce; with
\* loop_interval = 5 s and debounce = 2 s, a push 3 s after the last execution
\* triggers nothing up to 5 s after it.
C6_Trigger ==
    [][(pc = "loop" /\ alive /\ pc' # "loop") =>
          /\ (pc' = "trig") <=> (now - last > LOOP_INTERVAL
                                  \/ (last < last_tick /\ last_tick < now - Debounce))
          /\ (LOOP_INTERVAL = 10 /\ Debounce = 4 /\ last_tick - last = 6 /\ now - last <= 10)
                => pc' = "sleep"]_vars

\* the iteration 5 s after the last execution, with a push 3 s after it
C6_Witness ==
    /\ pc = "loop" /\ alive
    /\ last > 0
    /\ last_tick - last = 6
    /\ now - last = 10

ClosedCheck == pc = "check" /\ pc' = "sleep"
Stopped == ~alive /\ pc \in {"sleep", "loop", "done"}

\* C7 as stated: when the connectivity check of a triggered iteration returns closed,
\* the engine goes to Stopped and makes no gateway call of any kind after the check.
C7_Original ==
    [][ClosedCheck => (alive' = FALSE /\ trace' = Append(trace, "is_open"))]_vars

\* C7 as amended: the engine makes one more gateway call, the gateway's exit(), goes
\* to Stopped, and makes no gateway call after that.
C7_StopOnClosed ==
    /\ [][ClosedCheck => (alive' = FALSE /\ trace' = <<"is_open", "exit">>)]_vars
    /\ [][Stopped => (trace' = trace /\ Stopped')]_vars

\* run_loop has returned after a closed connectivity check
C7_Witness == pc = "done" /\ ~alive /\ trace = <<"is_open", "exit">>

\* C8: once alive is false it stays false, and neither run_loop nor exit makes a
\* gateway call or a strategy call from then on.
C8_StoppedTerminal == [][~alive => (alive' = FALSE /\ trace' = trace)]_vars

\* run_loop has returned on an engine that exit() stopped after construction
C8_Witness == pc = "done" /\ ~alive /\ "bot.init" \in { trace[i] : i \in 1 .. Len(trace) }

TickRaised == pc = "crashed" /\ err # "is_open"
SameBars == bars = tick0.bars
SameAccount == open_orders = tick0.open_orders /\ order_history = tick0.order_history

\* C10 as stated: when handle_tick raises, the bars, the open-order set and the
\* history are what they were when the tick started.
C10_Original == TickRaised => (SameBars /\ SameAccount)

\* C10 as amended: nothing is rolled back.  When the bar fetch raises all three are
\* as before the tick; when the account fetch raises the open-order set and the
\* history are as before the tick and the bars keep the merge.
C10_FailedTick ==
    TickRaised =>
        /\ err \in {"get_bars", "recent_bars"} => (SameBars /\ SameAccount)
        /\ err = "get_orders" => SameAccount

\* the account fetch raised after the bars were merged, with an order open
C10_Witness ==
    /\ TickRaised /\ err = "get_orders"
    /\ ~SameBars
    /\ open_orders # <<>>

\* exit() reaches line 147 in this step: it is called on a Running engine
ExitOnRunning == alive /\ exit_err' # exit_err

\* C11: when exit is called on a Running engine, whatever the gateway's exit raises
\* (an authentication error or any other exception) is swallowed: nothing leaves
\* exit, and the engine ends with alive = false.
C11_BestEffortExit ==
    /\ [][ExitOnRunning => (alive' = FALSE /\ err' = err /\ (pc = "check" => pc' = "sleep"))]_vars
    /\ [](exit_err # "none" => ~alive)

\* the gateway's exit raised a generic exception after a tick had raised, and the
\* engine stopped all the same
C11_Witness == pc = "crashed" /\ exit_err = "Exception" /\ ~alive /\ err = "get_orders"

\* C12: a call of send_order, update_order or cancel_order forwards exactly one call,
\* the corresponding one, to the gateway and leaves the bars, the open-order set, the
\* history, alive and last_tick as they were.
C12_RelayPassThrough ==
    [][(pc \in RelayOps) =>
          (/\ trace' = Append(trace, pc)
           /\ UNCHANGED <<bars, open_orders, order_history, alive, last_tick>>)]_vars

\* a cancel was relayed while an order was open and one was in the history
C12_Witness ==
    /\ pc = "call"
    /\ trace # <<>> /\ trace[Len(trace)] = "cancel_order"
    /\ open_orders # <<>> /\ order_history # <<>>

\* C13: update_bars replaces the whole store by a full fetch (get_bars) exactly when
\* fewer than 10 bars are held, and otherwise asks recent_bars only; a cold store of
\* 3 bars is followed by a full fetch.
C13_FullFetchBelowTen ==
    [][/\ (trace' = <<"get_bars">>) <=> (Len(bars) < 10)
       /\ (trace' = <<"recent_bars">>) <=> (Len(bars) >= 10)
       /\ (Len(bars) < 10) => (bars' \in FullFetches(AllViews))
       /\ (Len(bars) = 3) => (trace' = <<"get_bars">>)]_vars

\* a store of 3 bars after an update that found fewer than 10 bars
C13_Witness == Len(bars) = 3 /\ trace = <<"get_bars">>

(***************************************************************************)
(* Properties of the changed flags                                         *)
(***************************************************************************)
\* bars put in front of the store since handle_tick was entered
Inserted == Len(bars) - Len(tick0.bars)

\* the bar at index i was fetched, replaced, merged or inserted since the last tick
\* that reached the strategy (or since construction)
Touched(i) ==
    IF "full" \in bars_path THEN TRUE
    ELSE IF i <= Inserted THEN TRUE
    ELSE IF i = Inserted + 1
         THEN bars_path \cap {"replace", "merge"} # {} \/ tick0.bars[1].did_change
         ELSE tick0.bars[i - Inserted].did_change

\* C14: after a tick that reached the strategy every bar has its changed flag
\* cleared; the flags are cleared only after on_tick has returned; and at on_tick the
\* flagged bars are exactly those replaced or inserted since the previous tick.
C14_ChangedFlags ==
    /\ [][(pc = "t_bot" /\ pc' = "sleep") => \A i \in 1 .. Len(bars') : ~bars'[i].did_change]_vars
    /\ [][(pc = "t_bot" /\ pc' = "crashed") => bars' = bars]_vars
    /\ [](pc = "t_bot" => \A i \in 1 .. Len(bars) : bars[i].did_change <=> Touched(i))

\* the strategy is called in a later tick with a merged head flagged under a new
\* bucket, over bars that an earlier tick cleared
C14_Witness ==
    /\ pc = "t_bot"
    /\ {"merge", "insert"} \subseteq bars_path
    /\ bars[1].did_change /\ bars[2].did_change
    /\ ~bars[3].did_change

\* C15: after a pass of update_account the open-order set is the sequence of the
\* orders that the answer of get_orders reports active, in the answer's order: no
\* order of the earlier set is carried over and no active order is left out.
C15_OpenSetIsActiveSet ==
    [][(orders' # orders \/ open_orders' # open_orders) =>
          /\ \A i \in 1 .. Len(open_orders') : open_orders'[i].active
          /\ Len(open_orders') = Cardinality({ k \in 1 .. Len(orders') : orders'[k].active })
          /\ \E f \in [1 .. Len(open_orders') -> 1 .. Len(orders')] :
                /\ \A i \in 1 .. Len(open_orders') : orders'[f[i]] = open_orders'[i]
                /\ \A i, j \in 1 .. Len(open_orders') : i < j => f[i] < f[j]]_vars

\* a pass dropped an order that was open and took up another the answer reports active
C15_Witness ==
    /\ pc = "call"
    /\ Len(order_history) = 1 /\ order_history[1].id = "a"
    /\ Len(open_orders) = 2 /\ open_orders[1].id = "" /\ open_orders[2].id = "b"
    /\ Len(orders) = 3 /\ ~orders[2].active

(***************************************************************************)
(* Properties of the head and of the closed bars                           *)
(***************************************************************************)
\* subs, held newest first, has its timestamps in order and each once
StrictlyOrdered(subs) == \A i \in 1 .. Len(subs) - 1 : subs[i] > subs[i + 1]

\* C16: the merge branch never gives a head whose subbar timestamps are out of order
\* or hold a timestamp twice, whatever view of the head's bucket comes in.
C16_MergeOrdered ==
    Incremental =>
        \A b \in HeadViews :
            Branch(bars, b) = "merge" => StrictlyOrdered(MergeHead(bars[1], b).subbars)

\* the head is the result of a merge that took subbars of both sides
C16_Witness ==
    /\ bars_path = {"merge"}
    /\ Len(bars[1].subbars) = BarWidth
    /\ StrictlyOrdered(bars[1].subbars)

\* C17: an incremental update_bars changes at most the bar at index 0 and inserts new
\* bars in front of it: the bars behind the old head are afterwards behind it still,
\* with the same timestamps and subbars and in the same order.
C17_OnlyHeadMutable ==
    [][Incremental =>
          LET k == Len(bars') - Len(bars)
          IN /\ k >= 0
             /\ \A i \in 1 .. k : bars'[i].tstamp > bars[1].tstamp
             /\ bars'[k + 1].tstamp = bars[1].tstamp
             /\ \A i \in 2 .. Len(bars) :
                   /\ bars'[i + k].tstamp = bars[i].tstamp
                   /\ bars'[i + k].subbars = bars[i].subbars]_vars

\* an update merged the head and then put a bar of a new bucket in front of it
C17_Witness ==
    /\ Len(bars) = MinBars + 1
    /\ bars_path = {"merge", "insert"}
    /\ Len(bars[2].subbars) < BarWidth

(***************************************************************************)
(* Properties of the push notifications                                    *)
(***************************************************************************)
\* C18: a tick that was triggered sets last at or after last_tick; from then on the
\* push branch is false in every iteration until a push writes a later last_tick; a
\* value of last_tick makes the push branch trigger a tick at most once.
C18_NoStaleRetrigger ==
    /\ [][(pc = "trig" /\ pc' = "check") => last' >= last_tick']_vars
    /\ [][(last >= last_tick /\ last_tick' = last_tick) => last' >= last_tick']_vars
    /\ []((pc = "loop" /\ last >= last_tick) => ~PushBranch(now, last, last_tick))
    /\ [][(pc = "loop" /\ pc' = "trig" /\ PushBranch(now, last, last_tick)) => ~served]_vars

\* an iteration finds a push that has triggered its tick and is older than the debounce,
\* before the polling interval is over
C18_Witness ==
    /\ pc = "loop" /\ alive
    /\ served /\ cause = "none"
    /\ last_tick < now - Debounce
    /\ ~IntervalBranch(now, last)

\* C19: a tick that the push branch alone has triggered never begins its bar fetch
\* less than the debounce after the latest push, however on_tick interleaves.
C19_DebounceHolds ==
    (pc = "t_bars" /\ cause = "push") => now - last_tick >= Debounce

\* the latest push that the loop can still serve before the clock of the model ends
PushDeadline == StartTime + FairSpan - (LOOP_INTERVAL + 1)

\* C20: under fair scheduling, while the engine is running and nothing raises, every
\* push (also one that arrives while a tick is in flight) is followed by a tick whose
\* bar fetch begins after the push.
C20_NoPushLost ==
    (pending /\ last_tick <= PushDeadline) ~> (~pending \/ ~alive \/ pc \in {"crashed", "failed"})

\* a push arrived after the bar fetch of the tick in flight had begun
C20_Witness ==
    /\ pc = "t_bot" /\ alive
    /\ pending /\ last_tick <= PushDeadline
    /\ last_tick > last

====
